---- MODULE Spec2Model ----
(***************************************************************************)
(* A model of src/drawer2.js: the view tree (View, Container), the flow    *)
(* layout manager and the Drawer's mouse-event registry.                   *)
(* Every action is one call of a public method, taken atomically: the      *)
(* program is single-threaded and no method yields.                        *)
(***************************************************************************)
EXTENDS Integers, Sequences, FiniteSets, TLC

(* ------------------------------ bounds --------------------------------- *)
\* event points are drawn from 0..MaxPoint on both axes
MaxPoint == 2
\* depth of nested draw calls at which the engine's call stack is exhausted
MaxStack == 3
\* draws are explored while every x stays within 0..MaxAbs and every y
\* within 0..2*MaxAbs
MaxAbs == 3
\* draws are explored while the context holds at most MaxSaved saved states
MaxSaved == 3

(* ------------------------------ objects -------------------------------- *)
\* the value null
Null == "null"
\* the Container objects: the Drawer's root container and one more
Containers == {"root", "panel"}
\* the plain View objects
Leaves == {"a", "b"}
\* the Label objects
Labels == {"label"}
Views == Containers \cup Leaves \cup Labels
\* the callbacks a caller registers
Handlers == {"h1", "h2"}

VARIABLES
    x, y, width, height,    \* View.x, View.y, View.width, View.height
    parent,                 \* View.parent
    views,                  \* Container.views (array, insertion order)
    relativePoints,         \* Container.relativePoints (Map view -> {x, y})
    paddingLeft, paddingTop,\* Container.paddingLeft, Container.paddingTop
    paddingRight,           \* Container.paddingRight
    layoutManager,          \* Container.layoutManager
    horizonSpace,           \* FlowLayoutManager.horizonSpace
    verticalSpace,          \* FlowLayoutManager.verticalSpace
    registerViews,          \* Drawer.registerViews (Map, insertion order)
    bg,                     \* View.bg: null or a colour (paint functions are not modelled)
    borderWidth,            \* View.border.width
    context,                \* Drawer.context: the paint state and the stack of saved states
    call                    \* the last call made and what it returned or threw

vars == <<x, y, width, height, parent, views, relativePoints,
          paddingLeft, paddingTop, paddingRight, layoutManager,
          horizonSpace, verticalSpace, registerViews, bg, borderWidth,
          context, call>>

geometry == <<x, y, width, height>>
padding == <<paddingLeft, paddingTop, paddingRight>>
layout == <<layoutManager, horizonSpace, verticalSpace>>
tree == <<parent, views>>
style == <<bg, borderWidth>>

(* ------------------------------ helpers -------------------------------- *)
\* Array.prototype.indexOf: the first index (1-based) of v in s, 0 if absent
RECURSIVE IndexFrom(_, _, _)
IndexFrom(s, v, i) ==
    IF i > Len(s) THEN 0
    ELSE IF s[i] = v THEN i
    ELSE IndexFrom(s, v, i + 1)

indexOf(s, v) == IndexFrom(s, v, 1)

\* Array.prototype.splice(index, 1): s without its element at index i
splice(s, i) == [k \in 1..(Len(s) - 1) |-> IF k < i THEN s[k] ELSE s[k + 1]]

\* Map.prototype.set on a Map without iteration order of interest
MapSet(m, k, val) == [j \in (DOMAIN m) \cup {k} |-> IF j = k THEN val ELSE m[j]]

(* ------------------------------- View ---------------------------------- *)
\* isIntersectAt with the right and bottom edges excluded
isIntersectHalfOpen(vx, vy, vw, vh, px, py) ==
    px >= vx /\ py >= vy /\ px < (vx + vw) /\ py < (vy + vh)

\* View.isIntersect(px, py), on geometry (vx, vy, vw, vh)
isIntersectAt(vx, vy, vw, vh, px, py) ==
    px >= vx /\ py >= vy /\ px <= (vx + vw) /\ py <= (vy + vh)

isIntersect(v, px, py) == isIntersectAt(x[v], y[v], width[v], height[v], px, py)

(* ----------------------------- Container ------------------------------- *)
\* addChildThrows with the owner overwritten before the throw
addChildThrowsLate(c, v) ==
    /\ parent' = [parent EXCEPT ![v] = c]
    /\ call' = [op |-> "addChild", self |-> c, view |-> v, thrown |-> "Error"]
    /\ UNCHANGED <<views>>

\* Container.addChild(view) when view.parent is set: throws, nothing else
addChildThrows(c, v) ==
    /\ call' = [op |-> "addChild", self |-> c, view |-> v, thrown |-> "Error"]
    /\ UNCHANGED <<tree>>

\* addChildAppends that puts the view in front of the child sequence
addChildPrepends(c, v) ==
    /\ parent' = [parent EXCEPT ![v] = c]
    /\ views' = [views EXCEPT ![c] = <<v>> \o @]
    /\ call' = [op |-> "addChild", self |-> c, view |-> v, thrown |-> "none"]

\* Container.addChild(view) when view.parent is null
addChildAppends(c, v) ==
    /\ parent' = [parent EXCEPT ![v] = c]
    /\ views' = [views EXCEPT ![c] = Append(@, v)]
    /\ call' = [op |-> "addChild", self |-> c, view |-> v, thrown |-> "none"]

\* Container.addChild(view)
addChild(c, v) ==
    /\ IF parent[v] # Null THEN addChildThrows(c, v) ELSE addChildAppends(c, v)
    /\ UNCHANGED <<style, context, geometry, padding, layout, relativePoints, registerViews>>

\* removeChild that leaves view.parent set
removeChildKeepsParent(c, v) ==
    /\ LET index == indexOf(views[c], v)
       IN IF index > 0
          THEN views' = [views EXCEPT ![c] = splice(@, index)]
          ELSE UNCHANGED <<views>>
    /\ call' = [op |-> "removeChild", self |-> c, view |-> v, thrown |-> "none"]
    /\ UNCHANGED <<style, context, parent, geometry, padding, layout, relativePoints, registerViews>>

\* removeChild that also deletes the view's entry of the Drawer's registry
removeChildUnregisters(c, v) ==
    /\ LET index == indexOf(views[c], v)
       IN IF index > 0
          THEN /\ parent' = [parent EXCEPT ![v] = Null]
               /\ views' = [views EXCEPT ![c] = splice(@, index)]
               /\ registerViews' = SelectSeq(registerViews, LAMBDA e : e.view # v)
          ELSE UNCHANGED <<tree, registerViews>>
    /\ call' = [op |-> "removeChild", self |-> c, view |-> v, thrown |-> "none"]
    /\ UNCHANGED <<style, context, geometry, padding, layout, relativePoints>>

\* removeChild that clears view.parent whether or not the view was found
removeChildClearsOwner(c, v) ==
    /\ LET index == indexOf(views[c], v)
       IN /\ parent' = [parent EXCEPT ![v] = Null]
          /\ IF index > 0
             THEN views' = [views EXCEPT ![c] = splice(@, index)]
             ELSE UNCHANGED <<views>>
    /\ call' = [op |-> "removeChild", self |-> c, view |-> v, thrown |-> "none"]
    /\ UNCHANGED <<style, context, geometry, padding, layout, relativePoints, registerViews>>

\* Container.removeChild(view)
removeChild(c, v) ==
    /\ LET index == indexOf(views[c], v)
       IN IF index > 0
          THEN /\ parent' = [parent EXCEPT ![v] = Null]
               /\ views' = [views EXCEPT ![c] = splice(@, index)]
          ELSE UNCHANGED <<tree>>
    /\ call' = [op |-> "removeChild", self |-> c, view |-> v, thrown |-> "none"]
    /\ UNCHANGED <<style, context, geometry, padding, layout, relativePoints, registerViews>>

(* ------------------------- FlowLayoutManager --------------------------- *)
\* The values Container.draw and the layout pass read and write while they
\* run: the views' positions and sizes, the relative points of every
\* container, the context, the exception in flight, if any, and the log of
\* the steps taken (what a test double of the context and the views sees).
Frame == [x |-> x, y |-> y, w |-> width, h |-> height, rp |-> relativePoints,
          ctx |-> context, log |-> <<>>, thrown |-> "none"]

Logged(st, e) == [st EXCEPT !.log = Append(@, e)]

\* Label.fontSize, Label.padding and the font string of a Label
FontSize == 12
LabelPadding == 0
LabelFont == "12px Arial"
\* Math.ceil(context.measureText(label.text).width) under LabelFont
LabelTextWidth == 2

\* view.measure(context): View.measure measures nothing, Label.measure sets
\* the context's font and the label's size
measure(v, st) ==
    IF v \in Labels
    THEN [st EXCEPT !.ctx.font = LabelFont,
                    !.w[v] = LabelTextWidth + LabelPadding,
                    !.h[v] = FontSize + LabelPadding]
    ELSE st

\* availableWidth of FlowLayoutManager.layout
availableWidth(c) == width[c] - (paddingLeft[c] + paddingRight[c])

\* FlowFrom that advances the cursor without the trailing gap
RECURSIVE FlowFromNoTrailingGap(_, _, _, _, _)
FlowFromNoTrailingGap(c, i, cx, cy, st) ==
    IF i > Len(views[c]) THEN st
    ELSE LET view == views[c][i]
             st1 == measure(view, st)
             viewOccupyWidth == horizonSpace + st1.w[view]
             wraps == viewOccupyWidth + cx > availableWidth(c)
             nx == IF wraps THEN 0 ELSE cx
             ny == IF wraps THEN cy + st1.h[view] + verticalSpace ELSE cy
             st2 == [st1 EXCEPT !.x[view] = nx, !.y[view] = ny]
         IN FlowFromNoTrailingGap(c, i + 1, nx + viewOccupyWidth, ny, st2)

\* FlowFrom that starts a new row below the previous child: the cursor
\* advances by the height of the child before the one being placed
RECURSIVE FlowFromPreviousHeight(_, _, _, _, _)
FlowFromPreviousHeight(c, i, cx, cy, st) ==
    IF i > Len(views[c]) THEN st
    ELSE LET view == views[c][i]
             st1 == measure(view, st)
             viewOccupyWidth == horizonSpace + st1.w[view]
             wraps == viewOccupyWidth + cx > availableWidth(c)
             rowHeight == IF i = 1 THEN 0 ELSE st1.h[views[c][i - 1]]
             nx == IF wraps THEN 0 ELSE cx
             ny == IF wraps THEN cy + rowHeight + verticalSpace ELSE cy
             st2 == [st1 EXCEPT !.x[view] = nx, !.y[view] = ny]
         IN FlowFromPreviousHeight(c, i + 1, nx + viewOccupyWidth + horizonSpace, ny, st2)

\* FlowFrom that wraps a child when the cursor alone has passed the
\* available width, whatever the child's width
RECURSIVE FlowFromWrapsLate(_, _, _, _, _)
FlowFromWrapsLate(c, i, cx, cy, st) ==
    IF i > Len(views[c]) THEN st
    ELSE LET view == views[c][i]
             st1 == measure(view, st)
             viewOccupyWidth == horizonSpace + st1.w[view]
             wraps == cx > availableWidth(c)
             nx == IF wraps THEN 0 ELSE cx
             ny == IF wraps THEN cy + st1.h[view] + verticalSpace ELSE cy
             st2 == [st1 EXCEPT !.x[view] = nx, !.y[view] = ny]
         IN FlowFromWrapsLate(c, i + 1, nx + viewOccupyWidth + horizonSpace, ny, st2)

\* the for-loop of FlowLayoutManager.layout from child i on, the cursor at
\* (cx, cy)
RECURSIVE FlowFrom(_, _, _, _, _)
FlowFrom(c, i, cx, cy, st) ==
    IF i > Len(views[c]) THEN st
    ELSE LET view == views[c][i]
             st1 == measure(view, st)
             viewOccupyWidth == horizonSpace + st1.w[view]
             wraps == viewOccupyWidth + cx > availableWidth(c)
             nx == IF wraps THEN 0 ELSE cx
             ny == IF wraps THEN cy + st1.h[view] + verticalSpace ELSE cy
             st2 == [st1 EXCEPT !.x[view] = nx, !.y[view] = ny]
         IN FlowFrom(c, i + 1, nx + viewOccupyWidth + horizonSpace, ny, st2)

\* FlowLayoutManager.layout(container, context)
FlowLayout(c, st) == FlowFrom(c, 1, 0, 0, st)

\* the layout pass of Container.draw: LayoutManager.layout if one is attached
LayoutPass(c, st) ==
    IF layoutManager[c] # Null
    THEN FlowLayout(c, Logged(st, [op |-> "layout", self |-> c]))
    ELSE st

(* ------------------------------ painting ------------------------------- *)
\* the drawing state of a 2D context that save pushes and restore pops
PaintState(ctx) ==
    [fillStyle |-> ctx.fillStyle, strokeStyle |-> ctx.strokeStyle,
     lineWidth |-> ctx.lineWidth, font |-> ctx.font,
     textBaseline |-> ctx.textBaseline]

\* context.save()
saved(st) ==
    Logged([st EXCEPT !.ctx.stack = Append(@, PaintState(st.ctx))],
           [op |-> "save", state |-> PaintState(st.ctx)])

\* what follows view.draw(context) in Container.draw's forEach, were the
\* call of context.restore() left out
restoredNever(st) == st

\* what follows view.draw(context) in Container.draw's forEach:
\* context.restore(), unless view.draw threw
restored(st) ==
    IF st.thrown # "none" \/ st.ctx.stack = <<>> THEN st
    ELSE LET top == st.ctx.stack[Len(st.ctx.stack)]
         IN Logged([st EXCEPT !.ctx = [fillStyle |-> top.fillStyle,
                                       strokeStyle |-> top.strokeStyle,
                                       lineWidth |-> top.lineWidth,
                                       font |-> top.font,
                                       textBaseline |-> top.textBaseline,
                                       stack |-> SubSeq(@.stack, 1, Len(@.stack) - 1)]],
                   [op |-> "restore"])

\* View._drawBg
drawBg(v, st) == IF bg[v] # Null THEN [st EXCEPT !.ctx.fillStyle = bg[v]] ELSE st

\* View._drawBorder
drawBorder(v, st) ==
    IF borderWidth[v] > 0
    THEN [st EXCEPT !.ctx.strokeStyle = "#000", !.ctx.lineWidth = borderWidth[v]]
    ELSE st

\* View.draw
viewDraw(v, st) == drawBorder(v, drawBg(v, Logged(st, [op |-> "paint", view |-> v])))

\* Label.draw
labelDraw(v, st) ==
    [viewDraw(v, st) EXCEPT !.ctx.fillStyle = "black",
                            !.ctx.font = LabelFont,
                            !.ctx.textBaseline = "top"]

(* --------------------------- Container.draw ---------------------------- *)
\* the relative point Container.draw uses for a child: the recorded one, or
\* the child's current position, recorded now
pointOf(c, view, st) ==
    IF view \in DOMAIN st.rp[c] THEN st.rp[c][view]
    ELSE [x |-> st.x[view], y |-> st.y[view]]

\* place that adds the container's origin and padding to the child's
\* current position instead of to its recorded relative point
placeAccumulating(c, view, st) ==
    LET point == pointOf(c, view, st)
        st1 == [st EXCEPT !.rp[c] = MapSet(@, view, point)]
        st2 == [st1 EXCEPT !.x[view] = paddingLeft[c] + st1.x[c] + st1.x[view]]
        st3 == [st2 EXCEPT !.y[view] = paddingTop[c] + st2.y[c] + st2.y[view]]
    IN Logged(st3, [op |-> "place", self |-> c, view |-> view])

\* the positioning of one child in Container.draw's forEach
place(c, view, st) ==
    LET point == pointOf(c, view, st)
        st1 == [st EXCEPT !.rp[c] = MapSet(@, view, point)]
        st2 == [st1 EXCEPT !.x[view] = paddingLeft[c] + st1.x[c] + point.x]
        st3 == [st2 EXCEPT !.y[view] = paddingTop[c] + st2.y[c] + point.y]
    IN Logged(st3, [op |-> "place", self |-> c, view |-> view])

\* view.draw(context) at call depth d: Container.draw for a container,
\* Label.draw for a label, View.draw for any other view. A call nested deeper than
\* the stack allows throws RangeError; an exception ends every enclosing
\* loop.
RECURSIVE DrawView(_, _, _), DrawChildren(_, _, _, _)
DrawView(v, st, d) ==
    IF st.thrown # "none" THEN st
    ELSE IF d > MaxStack THEN [st EXCEPT !.thrown = "RangeError"]
    ELSE IF v \in Containers
    THEN DrawChildren(v, 1, LayoutPass(v, viewDraw(v, st)), d)
    ELSE IF v \in Labels THEN labelDraw(v, st)
    ELSE viewDraw(v, st)

DrawChildren(c, i, st, d) ==
    IF i > Len(views[c]) \/ st.thrown # "none" THEN st
    ELSE DrawChildren(c, i + 1,
             restored(DrawView(views[c][i], saved(place(c, views[c][i], st)), d + 1)),
             d)

\* what the layout pass of Container.draw on c assigns to c's children: the
\* values of view.x and view.y between the layout pass and the forEach
\* (no entries if c has no layout manager)
LocalPlaces(c) ==
    IF layoutManager[c] = Null THEN <<>>
    ELSE LET laid == LayoutPass(c, Frame)
         IN [v \in {views[c][i] : i \in DOMAIN views[c]} |->
                [x |-> laid.x[v], y |-> laid.y[v]]]

\* every coordinate of a frame and the stack of saved states lie within the
\* explored range
InRange(st) ==
    /\ \A v \in Views : st.x[v] \in 0..MaxAbs /\ st.y[v] \in 0..(2 * MaxAbs)
    /\ Len(st.ctx.stack) <= MaxSaved

\* Container.draw(context), called on container c
draw(c) ==
    LET st == DrawView(c, Frame, 1)
    IN /\ InRange(st)
       /\ x' = st.x
       /\ y' = st.y
       /\ width' = st.w
       /\ height' = st.h
       /\ relativePoints' = st.rp
       /\ context' = st.ctx
       /\ call' = [op |-> "draw", self |-> c, local |-> LocalPlaces(c),
                   log |-> st.log, thrown |-> st.thrown]
       /\ UNCHANGED <<style, tree, padding, layout, registerViews>>

\* FlowLayoutManager.layout(container, context), called directly
layoutCall(c) ==
    LET st == FlowLayout(c, Frame)
    IN /\ x' = st.x
       /\ y' = st.y
       /\ width' = st.w
       /\ height' = st.h
       /\ context' = st.ctx
       /\ call' = [op |-> "layout", self |-> c, thrown |-> st.thrown]
       /\ UNCHANGED <<style, tree, padding, layout, relativePoints, registerViews>>

(* ------------------------- assignments by callers ---------------------- *)
\* view.x = px; view.y = py
setPosition(v, px, py) ==
    /\ x' = [x EXCEPT ![v] = px]
    /\ y' = [y EXCEPT ![v] = py]
    /\ call' = [op |-> "assign", thrown |-> "none"]
    /\ UNCHANGED <<style, context, width, height, tree, padding, layout,
                   relativePoints, registerViews>>

\* container.paddingLeft = l; container.paddingTop = t
setPadding(c, l, t) ==
    /\ paddingLeft' = [paddingLeft EXCEPT ![c] = l]
    /\ paddingTop' = [paddingTop EXCEPT ![c] = t]
    /\ call' = [op |-> "assign", thrown |-> "none"]
    /\ UNCHANGED <<style, context, geometry, tree, paddingRight, layout, relativePoints,
                   registerViews>>

(* ------------------------------ Drawer --------------------------------- *)
\* RegistrySet on an array of entries: every registration is appended
RegistryAppend(m, view, handle) == Append(m, [view |-> view, handle |-> handle])

\* Map.prototype.set on the insertion-ordered registry: the entry of an
\* existing key keeps its place
RegistrySet(m, view, handle) ==
    IF \E i \in 1..Len(m) : m[i].view = view
    THEN [i \in 1..Len(m) |->
             IF m[i].view = view THEN [view |-> view, handle |-> handle] ELSE m[i]]
    ELSE Append(m, [view |-> view, handle |-> handle])

\* Drawer.registerMouseEvent(view, eventHandle)
registerMouseEvent(v, h) ==
    /\ registerViews' = RegistrySet(registerViews, v, h)
    /\ call' = [op |-> "registerMouseEvent", self |-> v, handle |-> h,
                thrown |-> "none"]
    /\ UNCHANGED <<style, context, geometry, tree, padding, layout, relativePoints>>

\* DispatchFrom that stops at the first view hit
RECURSIVE DispatchFirstOnly(_, _, _, _)
DispatchFirstOnly(i, px, py, invoked) ==
    IF i > Len(registerViews) THEN invoked
    ELSE IF isIntersect(registerViews[i].view, px, py)
    THEN Append(invoked, registerViews[i])
    ELSE DispatchFirstOnly(i + 1, px, py, invoked)

\* the forEach of Drawer.handleEvent from entry i on: the handlers invoked
\* so far, in order of invocation
RECURSIVE DispatchFrom(_, _, _, _)
DispatchFrom(i, px, py, invoked) ==
    IF i > Len(registerViews) THEN invoked
    ELSE DispatchFrom(i + 1, px, py,
             IF isIntersect(registerViews[i].view, px, py)
             THEN Append(invoked, registerViews[i])
             ELSE invoked)

\* Drawer.handleEvent(event), event = {x: px, y: py}
handleEvent(px, py) ==
    /\ call' = [op |-> "handleEvent", x |-> px, y |-> py,
                invoked |-> DispatchFrom(1, px, py, <<>>), thrown |-> "none"]
    /\ UNCHANGED <<style, context, geometry, tree, padding, layout, relativePoints, registerViews>>

\* view.isIntersect(px, py), called directly
isIntersectCall(v, px, py) ==
    /\ call' = [op |-> "isIntersect", self |-> v, x |-> px, y |-> py,
                result |-> isIntersect(v, px, py), thrown |-> "none"]
    /\ UNCHANGED <<style, context, geometry, tree, padding, layout, relativePoints, registerViews>>

(* ------------------------------- Init ---------------------------------- *)
\* canvas.getContext("2d"): the paint state of a new 2D context
NewContext ==
    [fillStyle |-> "#000000", strokeStyle |-> "#000000", lineWidth |-> 1,
     font |-> "10px sans-serif", textBaseline |-> "alphabetic", stack |-> <<>>]

\* what the constructors of Container, FlowLayoutManager and Drawer set
Constructed ==
    /\ parent = [v \in Views |-> Null]
    /\ views = [c \in Containers |-> <<>>]
    /\ relativePoints = [c \in Containers |-> <<>>]
    /\ paddingLeft = [c \in Containers |-> 0]
    /\ paddingTop = [c \in Containers |-> 0]
    /\ paddingRight = [c \in Containers |-> 0]
    /\ layoutManager = [c \in Containers |-> Null]
    /\ horizonSpace = 0
    /\ verticalSpace = 0
    /\ registerViews = <<>>
    /\ bg = [v \in Views |-> Null]
    /\ borderWidth = [v \in Views |-> 0]
    /\ context = NewContext
    /\ call = [op |-> "new", thrown |-> "none"]

\* the views constructed at the origin: new Container(0, 0, 3, 6) twice,
\* new View(0, 0, 1, 2) twice, new Label(0, 0, text)
AtOrigin ==
    /\ x = [v \in Views |-> 0]
    /\ y = [v \in Views |-> 0]
    /\ width = [v \in Views |-> IF v \in Containers THEN 3 ELSE IF v \in Labels THEN 0 ELSE 1]
    /\ height = [v \in Views |-> IF v \in Containers THEN 6 ELSE IF v \in Labels THEN 0 ELSE 2]

Init == Constructed /\ AtOrigin

\* the positions and paddings (left, top) callers assign
Points == {<<0, 0>>, <<1, 2>>}
Pads == {<<0, 0>>, <<1, 2>>}

(* ---------- Spec: containers, nested or not, drawn repeatedly ---------- *)
\* the views that are added to and removed from containers
Kids == {"a", "panel"}

AddChild == \E c \in Containers, v \in Kids : addChild(c, v)
RemoveChild == \E c \in Containers, v \in Kids : removeChild(c, v)
Draw == \E c \in Containers : draw(c)
SetPosition == \E v \in {"root", "a"}, p \in Points : setPosition(v, p[1], p[2])
SetPadding == \E p \in Pads : setPadding("root", p[1], p[2])

Next == AddChild \/ RemoveChild \/ Draw \/ SetPosition \/ SetPadding

Spec == Init /\ [][Next]_vars

(* ---------- SpecTree: addChild and removeChild on every view ----------- *)
TreeAddChild == \E c \in Containers, v \in Views : addChild(c, v)
TreeRemoveChild == \E c \in Containers, v \in Views : removeChild(c, v)

NextTree == TreeAddChild \/ TreeRemoveChild

SpecTree == Init /\ [][NextTree]_vars

(* ---------- SpecEvents: the registry, dispatch and the tree ------------ *)
EventPoints == (0..MaxPoint) \X (0..MaxPoint)

Register == \E v \in {"root", "a", "b"}, h \in Handlers : registerMouseEvent(v, h)
HandleEvent == \E p \in EventPoints : handleEvent(p[1], p[2])
EventsAddChild == \E v \in Leaves : addChild("root", v)
EventsRemoveChild == \E v \in Leaves : removeChild("root", v)
EventsDraw == draw("root")
EventsSetPosition == \E v \in {"a"}, p \in Points : setPosition(v, p[1], p[2])

NextEvents ==
    \/ Register
    \/ HandleEvent
    \/ EventsAddChild
    \/ EventsRemoveChild
    \/ EventsDraw
    \/ EventsSetPosition

SpecEvents == Init /\ [][NextEvents]_vars
(* ---------- SpecFlow: FlowLayoutManager.layout on one container -------- *)
\* the children of the laid-out container, in the order they were added
FlowKids == <<"a", "b", "panel">>
FlowWidths == {40, 60, 120}
FlowHeights == {10, 20}
FlowGaps == {0, 10}
FlowPads == {0, 10}

\* root = new Container(0, 0, w, 6) with a FlowLayoutManager and paddings,
\* holding the first n of FlowKids, each constructed with its own size
InitFlow ==
    /\ bg = [v \in Views |-> Null]
    /\ borderWidth = [v \in Views |-> 0]
    /\ context = NewContext
    /\ relativePoints = [c \in Containers |-> <<>>]
    /\ paddingTop = [c \in Containers |-> 0]
    /\ registerViews = <<>>
    /\ call = [op |-> "new", thrown |-> "none"]
    /\ x = [v \in Views |-> 0]
    /\ y = [v \in Views |-> 0]
    /\ layoutManager = [c \in Containers |-> IF c = "root" THEN "flow" ELSE Null]
    /\ horizonSpace \in FlowGaps
    /\ verticalSpace \in FlowGaps
    /\ \E l \in FlowPads, r \in FlowPads :
          /\ paddingLeft = [c \in Containers |-> IF c = "root" THEN l ELSE 0]
          /\ paddingRight = [c \in Containers |-> IF c = "root" THEN r ELSE 0]
    /\ \E n \in 1..Len(FlowKids) :
          /\ views = [c \in Containers |->
                         IF c = "root" THEN SubSeq(FlowKids, 1, n) ELSE <<>>]
          /\ parent = [v \in Views |->
                          IF \E i \in 1..n : FlowKids[i] = v THEN "root" ELSE Null]
          /\ \E rw \in {100, 120}, ws \in [1..n -> FlowWidths], hs \in [1..n -> FlowHeights] :
                /\ width = [v \in Views |->
                               IF v = "root" THEN rw
                               ELSE IF \E i \in 1..n : FlowKids[i] = v
                               THEN ws[indexOf(FlowKids, v)] ELSE 1]
                /\ height = [v \in Views |->
                                IF \E i \in 1..n : FlowKids[i] = v
                                THEN hs[indexOf(FlowKids, v)] ELSE 6]

FlowLayoutCall == layoutCall("root")

NextFlow == FlowLayoutCall

SpecFlow == InitFlow /\ [][NextFlow]_vars

(* ---------- SpecHit: View.isIntersect on one view ----------------------- *)
HitOrigins == {0, 1, 10}
HitSizes == {0, 1, 20}
HitCoords == {-1, 0, 1, 2, 9, 10, 11, 20, 21, 30, 31}

\* a = new View(vx, vy, vw, vh)
InitHit ==
    /\ Constructed
    /\ \E vx \in HitOrigins, vy \in HitOrigins :
          /\ x = [v \in Views |-> IF v = "a" THEN vx ELSE 0]
          /\ y = [v \in Views |-> IF v = "a" THEN vy ELSE 0]
    /\ \E vw \in HitSizes, vh \in HitSizes :
          /\ width = [v \in Views |-> IF v = "a" THEN vw ELSE 1]
          /\ height = [v \in Views |-> IF v = "a" THEN vh ELSE 1]

HitTest == \E px \in HitCoords, py \in HitCoords : isIntersectCall("a", px, py)

NextHit == HitTest

SpecHit == InitHit /\ [][NextHit]_vars

(* ---------- SpecFlowDraw: a container with a flow layout, drawn -------- *)
\* as Init, root holding a FlowLayoutManager
InitFlowDraw ==
    /\ AtOrigin
    /\ bg = [v \in Views |-> Null]
    /\ borderWidth = [v \in Views |-> 0]
    /\ context = NewContext
    /\ parent = [v \in Views |-> Null]
    /\ views = [c \in Containers |-> <<>>]
    /\ relativePoints = [c \in Containers |-> <<>>]
    /\ paddingLeft = [c \in Containers |-> 0]
    /\ paddingTop = [c \in Containers |-> 0]
    /\ paddingRight = [c \in Containers |-> 0]
    /\ layoutManager = [c \in Containers |-> IF c = "root" THEN "flow" ELSE Null]
    /\ horizonSpace = 0
    /\ verticalSpace = 0
    /\ registerViews = <<>>
    /\ call = [op |-> "new", thrown |-> "none"]

\* view.width = w
setWidth(v, w) ==
    /\ width' = [width EXCEPT ![v] = w]
    /\ call' = [op |-> "assign", thrown |-> "none"]
    /\ UNCHANGED <<style, context, x, y, height, tree, padding, layout, relativePoints,
                   registerViews>>

FlowDrawAddChild == \E v \in Leaves : addChild("root", v)
FlowDrawRemoveChild == \E v \in Leaves : removeChild("root", v)
FlowDrawDraw == draw("root")
FlowDrawSetWidth == \E v \in Leaves, w \in 1..2 : setWidth(v, w)
FlowDrawSetPosition == \E p \in Points : setPosition("root", p[1], p[2])
FlowDrawSetPadding == \E p \in Pads : setPadding("root", p[1], p[2])

NextFlowDraw ==
    \/ FlowDrawAddChild
    \/ FlowDrawRemoveChild
    \/ FlowDrawDraw
    \/ FlowDrawSetWidth
    \/ FlowDrawSetPosition
    \/ FlowDrawSetPadding

SpecFlowDraw == InitFlowDraw /\ [][NextFlowDraw]_vars

(* --------- painting: a panel with a flow layout inside the root --------- *)
\* the state after construction and the assignments root.bg = "white",
\* a.bg = "red", a.border.width = 1 and
\* panel.layoutManager = new FlowLayoutManager()
InitPaint ==
    /\ AtOrigin
    /\ parent = [v \in Views |-> Null]
    /\ views = [c \in Containers |-> <<>>]
    /\ relativePoints = [c \in Containers |-> <<>>]
    /\ paddingLeft = [c \in Containers |-> 0]
    /\ paddingTop = [c \in Containers |-> 0]
    /\ paddingRight = [c \in Containers |-> 0]
    /\ layoutManager = [c \in Containers |-> IF c = "panel" THEN "flow" ELSE Null]
    /\ horizonSpace = 0
    /\ verticalSpace = 0
    /\ registerViews = <<>>
    /\ bg = [v \in Views |-> IF v = "root" THEN "white" ELSE IF v = "a" THEN "red" ELSE Null]
    /\ borderWidth = [v \in Views |-> IF v = "a" THEN 1 ELSE 0]
    /\ context = NewContext
    /\ call = [op |-> "new", thrown |-> "none"]

PaintKids == {"panel", "a", "label"}

PaintAddChild == \E v \in PaintKids : addChild("root", v)
PaintAddLabel == addChild("panel", "label")
PaintRemoveChild == \E v \in PaintKids : removeChild("root", v)
PaintRemoveLabel == removeChild("panel", "label")
PaintDraw == draw("root")
PaintLayout == layoutCall("panel")

NextPaint ==
    \/ PaintAddChild
    \/ PaintAddLabel
    \/ PaintRemoveChild
    \/ PaintRemoveLabel
    \/ PaintDraw
    \/ PaintLayout

SpecPaint == InitPaint /\ [][NextPaint]_vars

(* ------------------------------ claims --------------------------------- *)
\* the containers whose child sequence holds v, one entry per occurrence
Occurrences(v) ==
    {e \in Containers \X (1..Cardinality(Views)) :
        e[2] \in DOMAIN views[e[1]] /\ views[e[1]][e[2]] = v}

\* the point (px, py) lies in the closed rectangle of view v
InBounds(v, px, py) ==
    /\ px \in x[v]..(x[v] + width[v])
    /\ py \in y[v]..(y[v] + height[v])

\* C1: addChild(view) on a view whose owner is set throws, and leaves the
\* view's owner and every container's child sequence as they were.
C1_AddChildOwnedThrows ==
    [][(call'.op = "addChild" /\ parent[call'.view] # Null)
          => (call'.thrown = "Error" /\ parent' = parent /\ views' = views)]_vars

\* an addChild on a view owned by another container has thrown
C1_Witness ==
    /\ call.op = "addChild"
    /\ call.thrown = "Error"
    /\ parent[call.view] \in Containers \ {call.self}
    /\ views[call.self] # <<>>

\* C2: every view occurs in at most one child sequence, at most once, and
\* view.parent is the container whose sequence holds it, null if none does.
C2_SingleOwnership ==
    \A v \in Views :
        /\ Cardinality(Occurrences(v)) <= 1
        /\ parent[v] \in Containers \cup {Null}
        /\ \A c \in Containers : parent[v] = c <=> (\E e \in Occurrences(v) : e[1] = c)

\* a view has been removed from one container while others are owned
C2_Witness ==
    /\ call.op = "removeChild"
    /\ parent[call.view] = Null
    /\ \E v \in Views : parent[v] = "panel"
    /\ Len(views["root"]) = 2

\* the containers Container.draw on c draws: c and the containers below it
RECURSIVE DrawnFrom(_, _)
DrawnFrom(S, n) ==
    IF n = 0 THEN S
    ELSE DrawnFrom(S \cup {v \in Containers : \E c \in S : parent[v] = c}, n - 1)

Drawn(c) == DrawnFrom({c}, Cardinality(Containers))

\* child v of container c is where c's origin, padding and record put it
AtRecordedPlace(c, v) ==
    /\ v \in DOMAIN relativePoints[c]
    /\ x[v] = x[c] + paddingLeft[c] + relativePoints[c][v].x
    /\ y[v] = y[c] + paddingTop[c] + relativePoints[c][v].y

\* C3: after every draw that returns, each child of a drawn container
\* without layout manager is at container origin + padding + its recorded
\* relative origin, whatever the number of draws before.
C3_DrawIsIdempotent ==
    (call.op = "draw" /\ call.thrown = "none")
        => \A c \in Drawn(call.self) :
               layoutManager[c] = Null
                   => \A i \in DOMAIN views[c] : AtRecordedPlace(c, views[c][i])

\* root has just drawn "a" again: panel's record of "a" holds a position only
\* an earlier draw by root can have produced, and root is off the origin
C3_Witness ==
    /\ call.op = "draw"
    /\ call.self = "root"
    /\ call.thrown = "none"
    /\ parent["a"] = "root"
    /\ "a" \in DOMAIN relativePoints["panel"]
    /\ relativePoints["panel"]["a"].x > 1
    /\ x["root"] + paddingLeft["root"] > 0
    /\ relativePoints["root"]["a"].x > 0

\* the places (1-based) of the registry entries for view v
RegistryPlaces(v) == {k \in DOMAIN registerViews : registerViews[k].view = v}

\* C4: one dispatch invokes the handler of exactly the registered views
\* whose bounds contain the point, each once, in registration order.
C4_DispatchToAllHit ==
    call.op = "handleEvent" =>
        LET invoked == call.invoked
        IN /\ \A k \in DOMAIN registerViews :
                  InBounds(registerViews[k].view, call.x, call.y)
                      <=> Cardinality({i \in DOMAIN invoked : invoked[i] = registerViews[k]}) = 1
           /\ \A i \in DOMAIN invoked : \E k \in DOMAIN registerViews : invoked[i] = registerViews[k]
           /\ \A i, j \in DOMAIN invoked :
                  i < j => \A ki \in RegistryPlaces(invoked[i].view),
                              kj \in RegistryPlaces(invoked[j].view) : ki < kj

\* three views are registered; the first and the last are hit, one is not
C4_Witness ==
    /\ call.op = "handleEvent"
    /\ Len(registerViews) = 3
    /\ Len(call.invoked) = 2
    /\ call.invoked[1] = registerViews[1]
    /\ call.invoked[2] = registerViews[3]

\* C5: isIntersect(px, py) is true exactly for the points of the closed
\* rectangle [x, x + width] x [y, y + height]: true on the four edges and
\* corners, false one unit outside any edge.
C5_IsIntersectInclusive ==
    call.op = "isIntersect" =>
        LET v == call.self
            px == call.x
            py == call.y
        IN /\ call.result <=> InBounds(v, px, py)
           /\ (px \in {x[v], x[v] + width[v]} /\ py \in {y[v], y[v] + height[v]})
                  => call.result
           /\ (\/ px = x[v] - 1
               \/ px = x[v] + width[v] + 1
               \/ py = y[v] - 1
               \/ py = y[v] + height[v] + 1) => ~call.result
           /\ (x[v] = 10 /\ y[v] = 10 /\ width[v] = 20 /\ height[v] = 20)
                  => /\ <<px, py>> \in {<<10, 10>>, <<30, 30>>, <<20, 20>>} => call.result
                     /\ <<px, py>> \in {<<9, 10>>, <<31, 20>>} => ~call.result

\* the far corner (30, 30) of the view at (10, 10, 20, 20) was tested and hit
C5_Witness ==
    /\ call.op = "isIntersect"
    /\ x[call.self] = 10 /\ y[call.self] = 10
    /\ width[call.self] = 20 /\ height[call.self] = 20
    /\ call.x = 30 /\ call.y = 30
    /\ call.result

\* the content width of container c
ContentWidth(c) == width[c] - paddingLeft[c] - paddingRight[c]

\* where the cursor of a layout pass over c stands before its i-th child:
\* behind the previous child and both of its gaps
CursorX(c, i) ==
    IF i = 1 THEN 0
    ELSE x[views[c][i - 1]] + horizonSpace + width[views[c][i - 1]] + horizonSpace

CursorY(c, i) == IF i = 1 THEN 0 ELSE y[views[c][i - 1]]

\* C6: layout places the children in sequence order: a child stays on the
\* row at the cursor when cursor + gap + width fits the content width, else
\* it wraps to x = 0 on a row further down; the cursor then advances by
\* gap + width + gap. Three children of width 40, gaps 0, content width
\* 100: x = 0, 40, 0, the third on a new row.
C6_FlowPlacesInRows ==
    call.op = "layout" =>
        LET c == call.self
        IN /\ \A i \in DOMAIN views[c] :
                  LET v == views[c][i]
                  IN IF CursorX(c, i) + horizonSpace + width[v] <= ContentWidth(c)
                     THEN x[v] = CursorX(c, i) /\ y[v] = CursorY(c, i)
                     ELSE x[v] = 0 /\ y[v] >= CursorY(c, i) + verticalSpace
           /\ (/\ horizonSpace = 0
               /\ verticalSpace = 0
               /\ ContentWidth(c) = 100
               /\ Len(views[c]) = 3
               /\ \A i \in 1..3 : width[views[c][i]] = 40)
                  => /\ x[views[c][1]] = 0
                     /\ x[views[c][2]] = 40
                     /\ x[views[c][3]] = 0
                     /\ y[views[c][2]] = y[views[c][1]]
                     /\ y[views[c][3]] > y[views[c][2]]

\* the three children of width 40 were laid out in a content width of 100
\* left by a container of width 120 with both paddings 10
C6_Witness ==
    /\ call.op = "layout"
    /\ horizonSpace = 0 /\ verticalSpace = 0
    /\ width[call.self] = 120 /\ ContentWidth(call.self) = 100
    /\ Len(views[call.self]) = 3
    /\ \A i \in 1..3 : width[views[call.self][i]] = 40
    /\ x[views[call.self][2]] = 40
    /\ x[views[call.self][3]] = 0

\* C7: a single child wider than the content width is laid out at local
\* position (0, 0), and no error is raised.
C7_SingleWideChildAtOrigin ==
    (/\ call.op = "layout"
     /\ Len(views[call.self]) = 1
     /\ width[views[call.self][1]] > ContentWidth(call.self))
        => /\ call.thrown = "none"
           /\ x[views[call.self][1]] = 0
           /\ y[views[call.self][1]] = 0

\* C8: a container holds relative-origin records only for the views that
\* are in its child sequence (removeChild drops the record).
C8_RecordsOnlyForChildren ==
    \A c \in Containers :
        \A v \in DOMAIN relativePoints[c] : \E i \in DOMAIN views[c] : views[c][i] = v

\* C9: when a draw makes container b (no layout manager) record a child
\* whose position is the one container a's draw gave it, the record is the
\* child's relative origin in a, free of a's origin and padding.
C9_NoStaleOffset ==
    [][\A a, b \in Containers, v \in Views :
          (/\ a # b
           /\ call'.op = "draw"
           /\ call'.thrown = "none"
           /\ layoutManager[b] = Null
           /\ parent[v] = b
           /\ v \notin DOMAIN relativePoints[b]
           /\ v \in DOMAIN relativePoints'[b]
           /\ AtRecordedPlace(a, v))
              => relativePoints'[b][v] = relativePoints[a][v]]_vars

\* C10: addChild and removeChild leave the registry as it is, and a
\* dispatch reaches every registered view whose bounds contain the point,
\* whether or not the view is or ever was the child of a container.
C10_RegistryIndependentOfTree ==
    /\ [][call'.op \in {"addChild", "removeChild"}
             => registerViews' = registerViews]_vars
    /\ [](call.op = "handleEvent"
             => \A k \in DOMAIN registerViews :
                    InBounds(registerViews[k].view, call.x, call.y)
                        => \E i \in DOMAIN call.invoked : call.invoked[i] = registerViews[k])

\* one event reached root, never added to a container, a view that is a
\* child now and a view that was drawn as a child and removed since
C10_Witness ==
    /\ call.op = "handleEvent"
    /\ Len(call.invoked) = 3
    /\ \E v, w \in Leaves :
          /\ parent[v] = "root"
          /\ parent[w] = Null
          /\ w \in DOMAIN relativePoints["root"]
          /\ \A u \in {"root", v, w} : \E i \in 1..3 : call.invoked[i].view = u

\* the registry's entries for the views other than v, in order
OtherEntries(m, v) == SelectSeq(m, LAMBDA e : e.view # v)

\* C11: registerMouseEvent inserts or replaces: the registry holds one
\* entry per view, after a registration it is the handler just registered,
\* the entries of the other views are as before, and a dispatch invokes for
\* a view only the handler the registry holds for it, once.
C11_RegisterInsertsOrReplaces ==
    /\ [][call'.op = "registerMouseEvent"
             => /\ \E k \in DOMAIN registerViews' :
                      /\ registerViews'[k] = [view |-> call'.self, handle |-> call'.handle]
                      /\ {j \in DOMAIN registerViews' :
                             registerViews'[j].view = call'.self} = {k}
                /\ OtherEntries(registerViews', call'.self)
                      = OtherEntries(registerViews, call'.self)]_vars
    /\ [](/\ \A v \in Views : Cardinality(RegistryPlaces(v)) <= 1
          /\ call.op = "handleEvent"
                => \A i \in DOMAIN call.invoked :
                       /\ \E k \in DOMAIN registerViews : registerViews[k] = call.invoked[i]
                       /\ \A j \in DOMAIN call.invoked :
                              call.invoked[j].view = call.invoked[i].view => j = i)

\* the view registered first has just been registered again, with h2, and
\* kept its place before the two views registered after it
C11_Witness ==
    /\ call.op = "registerMouseEvent"
    /\ call.handle = "h2"
    /\ Len(registerViews) = 3
    /\ registerViews[1] = [view |-> call.self, handle |-> "h2"]
    /\ registerViews[2].handle = "h1"

\* C12: after every draw of a container with a layout manager each child is
\* at container origin + padding + the local position the layout pass of
\* that same draw assigned to it.
C12_DrawFollowsLayout ==
    (call.op = "draw" /\ call.thrown = "none" /\ layoutManager[call.self] # Null)
        => \A i \in DOMAIN views[call.self] :
               LET v == views[call.self][i]
               IN /\ x[v] = x[call.self] + paddingLeft[call.self] + call.local[v].x
                  /\ y[v] = y[call.self] + paddingTop[call.self] + call.local[v].y

\* C13: addChild records no relative origin; the draw that follows the
\* addChild records the child's x and y as they are then; every draw leaves
\* the origins already recorded as they are.
C13_OriginCapturedOnFirstDraw ==
    [][/\ call'.op = "addChild" => relativePoints' = relativePoints
       /\ (/\ call.op = "addChild"
           /\ call.thrown = "none"
           /\ call'.op = "draw"
           /\ call'.self = call.self
           /\ call'.thrown = "none"
           /\ layoutManager[call.self] = Null)
              => /\ call.view \in DOMAIN relativePoints'[call.self]
                 /\ relativePoints'[call.self][call.view]
                        = [x |-> x[call.view], y |-> y[call.view]]
       /\ call'.op = "draw"
              => \A c \in Containers : \A v \in DOMAIN relativePoints[c] :
                     /\ v \in DOMAIN relativePoints'[c]
                     /\ relativePoints'[c][v] = relativePoints[c][v]]_vars

\* the number of saves not yet restored after the first k steps of a log
RECURSIVE Depth(_, _)
Depth(L, k) ==
    IF k = 0 THEN 0
    ELSE Depth(L, k - 1) + (IF L[k].op = "save" THEN 1 ELSE IF L[k].op = "restore" THEN -1 ELSE 0)

\* v and the containers above it
RECURSIVE Chain(_, _)
Chain(v, n) == IF v = Null \/ n = 0 THEN {} ELSE {v} \cup Chain(parent[v], n - 1)

\* the steps of a log at which a child's draw has just been restored: the
\* restore matching the save that follows the placing at step i
Matches(L, i) ==
    {j \in (i + 2)..Len(L) :
        /\ L[j].op = "restore"
        /\ Depth(L, j) = Depth(L, i)
        /\ \A k \in (i + 1)..(j - 1) : Depth(L, k) > Depth(L, i)}

\* C14: paint-state isolation. A Container.draw that returns leaves the
\* save-stack depth of the context as it found it; in its log every child is
\* placed, then one save is made, then the child and its whole subtree are
\* painted, then the one matching restore is made; and the paint state saved
\* for a child is the paint state saved for each of its siblings.
C14_ChildDrawsAreBracketed ==
    /\ [][(call'.op = "draw" /\ call'.thrown = "none")
              => Len(context'.stack) = Len(context.stack)]_vars
    /\ [](  (call.op = "draw" /\ call.thrown = "none")
           => LET L == call.log
              IN \A i \in DOMAIN L :
                    L[i].op = "place" =>
                       /\ i + 1 \in DOMAIN L /\ L[i + 1].op = "save"
                       /\ Cardinality(Matches(L, i)) = 1
                       /\ \A j \in Matches(L, i) :
                             \A k \in DOMAIN L :
                                L[k].op = "paint" =>
                                   (L[i].view \in Chain(L[k].view, Cardinality(Views))
                                        <=> (i + 1 < k /\ k < j))
                       /\ \A i2 \in DOMAIN L :
                             (L[i2].op = "place" /\ L[i2].self = L[i].self)
                                 => L[i2 + 1].state = L[i + 1].state )

\* a draw of the root has returned with the panel, holding the label, drawn
\* before its sibling, and the label's draw had changed the paint state
C14_Witness ==
    /\ call.op = "draw" /\ call.thrown = "none" /\ call.self = "root"
    /\ views["root"] = <<"panel", "a">>
    /\ views["panel"] = <<"label">>
    /\ context.font # LabelFont

\* C15: measure changes nothing but the measured view's width and height. A
\* layout pass of the FlowLayoutManager, which measures every child, leaves
\* the paint state of the context and the stack of saved states as they
\* were, changes the size of no view but the container's children, and a
\* second measure of a child yields the size the first one did.
C15_MeasureChangesOnlySize ==
    [][call'.op = "layout"
          => /\ context' = context
             /\ \A v \in Views :
                   (\A k \in DOMAIN views[call'.self] : views[call'.self][k] # v)
                       => width'[v] = width[v] /\ height'[v] = height[v]
             /\ \A k \in DOMAIN views[call'.self] :
                   LET v == views[call'.self][k]
                       st == measure(v, [Frame EXCEPT !.w = width', !.h = height'])
                   IN st.w[v] = width'[v] /\ st.h[v] = height'[v]]_vars

\* C16: when the layout wraps to a new row, the cursor's y advances by the
\* height of the child being placed plus the vertical gap: the y of a
\* wrapped child is the previous cursor y + its own height + the gap, and a
\* child that does not wrap keeps the cursor's y.
C16_WrapAdvancesByOwnHeight ==
    call.op = "layout" =>
        \A i \in DOMAIN views[call.self] :
            LET c == call.self
                v == views[c][i]
            IN IF CursorX(c, i) + horizonSpace + width[v] > ContentWidth(c)
               THEN y[v] = CursorY(c, i) + height[v] + verticalSpace
               ELSE y[v] = CursorY(c, i)

\* a child of height 10 was wrapped below a child of height 20 and stands
\* at its own height plus the gap
C16_Witness ==
    /\ call.op = "layout"
    /\ Len(views[call.self]) >= 2
    /\ LET c == call.self
           v == views[c][2]
       IN /\ CursorX(c, 2) + horizonSpace + width[v] > ContentWidth(c)
          /\ height[views[c][1]] = 20
          /\ height[v] = 10
          /\ verticalSpace = 10
          /\ y[views[c][1]] = 0
          /\ y[v] = 20

\* C20: after a layout with non-negative gaps, widths and heights every
\* child has local x >= 0 and y >= 0, y does not decrease along the child
\* sequence, and a child whose gap + width fits the content width lies
\* inside it horizontally.
C20_FlowStaysInContent ==
    (/\ call.op = "layout"
     /\ horizonSpace >= 0 /\ verticalSpace >= 0
     /\ \A i \in DOMAIN views[call.self] :
           width[views[call.self][i]] >= 0 /\ height[views[call.self][i]] >= 0)
        => \A i \in DOMAIN views[call.self] :
               LET c == call.self
                   v == views[c][i]
               IN /\ x[v] >= 0
                  /\ y[v] >= 0
                  /\ i > 1 => y[v] >= y[views[c][i - 1]]
                  /\ horizonSpace + width[v] <= ContentWidth(c)
                        => x[v] + width[v] <= ContentWidth(c)

\* a child was laid out behind another one and ends exactly at the content
\* width, and the child after it was wrapped
C20_Witness ==
    /\ call.op = "layout"
    /\ Len(views[call.self]) = 3
    /\ LET c == call.self
       IN /\ x[views[c][2]] > 0
          /\ x[views[c][2]] + width[views[c][2]] = ContentWidth(c)
          /\ y[views[c][3]] > y[views[c][2]]
          /\ horizonSpace + width[views[c][3]] <= ContentWidth(c)

\* the steps of a log at which container c places a child, in order
PlacesOf(L, c) ==
    LET IsPlace(e) == e.op = "place" /\ e.self = c
    IN SelectSeq(L, IsPlace)

\* the step of a log at which e is made, 0 if it is not
StepOf(L, e) == IF \E k \in DOMAIN L : L[k] = e THEN CHOOSE k \in DOMAIN L : L[k] = e ELSE 0

\* C17: paint and layout order is insertion order. In a Container.draw
\* that returns, every container drawn first paints itself, then runs its
\* layout pass, then places and draws its children in the order of its
\* child sequence, each child drawn before the next one is placed; a
\* successful addChild appends to the child sequence, and removeChild keeps
\* the order of the children that remain.
C17_InsertionOrder ==
    /\ [](  (call.op = "draw" /\ call.thrown = "none")
           => LET L == call.log
              IN /\ L[1] = [op |-> "paint", view |-> call.self]
                 /\ \A c \in Containers :
                       LET k == StepOf(L, [op |-> "paint", view |-> c])
                           P == PlacesOf(L, c)
                       IN IF k = 0 THEN P = <<>>
                          ELSE /\ layoutManager[c] # Null
                                     => L[k + 1] = [op |-> "layout", self |-> c]
                               /\ [i \in DOMAIN P |-> P[i].view] = views[c]
                               /\ \A i \in DOMAIN P :
                                     LET placed == StepOf(L, P[i])
                                         drawn == StepOf(L, [op |-> "paint", view |-> P[i].view])
                                     IN /\ placed > k
                                        /\ layoutManager[c] # Null => placed > k + 1
                                        /\ drawn > placed
                                        /\ i < Len(P) => drawn < StepOf(L, P[i + 1]) )
    /\ [][ /\ (call'.op = "addChild" /\ call'.thrown = "none")
               => views'[call'.self] = Append(views[call'.self], call'.view)
           /\ call'.op = "removeChild"
               => LET Remains(v) == v # call'.view
                  IN views'[call'.self] = SelectSeq(views[call'.self], Remains)
         ]_vars

\* the root was drawn with three children and the panel, the last of its
\* child sequence, was painted after the label before it
C17_Witness ==
    /\ call.op = "draw" /\ call.thrown = "none"
    /\ views[call.self] = <<"a", "label", "panel">>
    /\ DOMAIN relativePoints[call.self] = {"a", "label", "panel"}
    /\ LET L == call.log
       IN StepOf(L, [op |-> "paint", view |-> "panel"])
              > StepOf(L, [op |-> "paint", view |-> "label"])

\* C18: removeChild of a view that is not in the container's child sequence
\* changes nothing: the view's owner, every child sequence and every
\* relative-origin record stay as they were, and no error is raised.
C18_RemoveAbsentChildIsNoOp ==
    [][(call'.op = "removeChild" /\ indexOf(views[call'.self], call'.view) = 0)
          => /\ call'.thrown = "none"
             /\ parent' = parent
             /\ views' = views
             /\ relativePoints' = relativePoints]_vars

\* removeChild was called on a container for a view that another container
\* owns and holds a relative origin of
C18_Witness ==
    /\ call.op = "removeChild"
    /\ parent[call.view] \in Containers \ {call.self}
    /\ call.view \in DOMAIN relativePoints[parent[call.view]]
    /\ indexOf(views[parent[call.view]], call.view) > 0

\* C19: in every hierarchy reached by addChild and removeChild calls the
\* ownership relation is acyclic: no container is its own child or a child
\* of one of its descendants, so that Container.draw terminates and
\* returns.
C19_HierarchyIsAcyclic ==
    /\ \A c \in Containers : c \notin Chain(parent[c], Cardinality(Views))
    /\ call.op = "draw" => call.thrown = "none"

====
